---- MODULE Spec2Model ----
(***************************************************************************)
(* The PDF overlay editor (component PDFEditor): the in-memory sets of     *)
(* text and image edits, the rows of table pdf_edits, the asynchronous     *)
(* handlers that reconcile the two, text extraction and export.            *)
(*                                                                         *)
(* Units.  The render scale is kept in quarters (scale 1.5 is 6), so that  *)
(* the zoom steps of 0.25 are integers; page heights are multiples of 4,   *)
(* which makes height * scale an integer.  Mask rectangles are kept in     *)
(* fifths of a pixel, because they are built from fontSize * 1.2 and       *)
(* fontSize * 0.2.  Strings are sequences of one-character strings.        *)
(***************************************************************************)
EXTENDS Integers, Sequences, FiniteSets, Bags, TLC

\* ------------------------------------------------------------------ bounds
MaxPending == 2     \* asynchronous continuations in flight at one time
MaxEvents == 4      \* user events in one run

\* ------------------------------------------------------- program constants
InitialScale == 6          \* useState(1.5)
MaxScale == 12             \* Math.min(scale + 0.25, 3)
MinScale == 2              \* Math.max(scale - 0.25, 0.5)
ZoomStep == 1              \* 0.25
InitialFontSize == 16      \* useState(16)
MinFontSize == 10          \* Math.max(item.height || 0, 10)
DefaultRowFontSize == 16   \* edit.font_size || 16
DefaultImageSize == 200    \* width: 200, height: 200; Number(edit.width) || 200
InitialColor == "#000000"
ReportId == "report-1"

\* ------------------------------------------------------------------ strings
Whitespace == {" ", "\t", "\n"}

RECURSIVE TrimStart(_)
TrimStart(s) ==
    IF s # <<>> /\ Head(s) \in Whitespace THEN TrimStart(Tail(s)) ELSE s

RECURSIVE TrimEnd(_)
TrimEnd(s) ==
    IF s # <<>> /\ s[Len(s)] \in Whitespace
    THEN TrimEnd(SubSeq(s, 1, Len(s) - 1))
    ELSE s

\* String.prototype.trim
Trim(s) == TrimEnd(TrimStart(s))

DefaultContent ==
    <<"D","o","u","b","l","e","-","c","l","i","c","k"," ","t","o"," ","e","d","i","t">>

\* ------------------------------------------------------------ the document
\* The PDF shown by the editor: per page its height in PDF units and the
\* positioned text items of its text layer (pdf.js TextItem: str, transform
\* [a, b, c, d, e, f], width, height).
Doc ==
    << [height |-> 800,
        items  |-> << [str |-> <<" ","T","o","t","a","l">>,
                       transform |-> <<12, 0, 0, 12, 50, 700>>,
                       width |-> 60, height |-> 12],
                      [str |-> <<" ", " ">>,
                       transform |-> <<12, 0, 0, 12, 50, 650>>,
                       width |-> 6, height |-> 12] >>],
       [height |-> 600,
        items  |-> << [str |-> <<"S","u","m"," ">>,
                       transform |-> <<0, 12, -12, 0, 40, 500>>,
                       width |-> 0, height |-> 8] >>] >>

NumPages == Len(Doc)
PageNumbers == 1..NumPages

\* The documents a pdfUrl can name are told apart by their number of
\* pages: Doc itself, and the shorter document made of the first page of Doc.
ShortNumPages == 1
DocumentSizes == {ShortNumPages, NumPages}

\* --------------------------------------------------------------- identities
OriginalId(pageNum, x, y) == <<"original", pageNum, x, y>>
\* a generator that hands out an id a stored row has
UuidTaken(n) == <<"uuid", IF n > 0 THEN -1 ELSE n, 0, 0>>
Uuid(n) == <<"uuid", n, 0, 0>>
NoId == <<"none", 0, 0, 0>>
IsOriginalId(id) == id[1] = "original"

Abs(n) == IF n < 0 THEN -n ELSE n
Max(a, b) == IF a >= b THEN a ELSE b
Min(a, b) == IF a <= b THEN a ELSE b

\* -------------------------------------------------------- generic sequences
SeqMap(s, F(_)) == [i \in 1..Len(s) |-> F(s[i])]

Range(s) == {s[i] : i \in 1..Len(s)}

\* Array.prototype.find: the first element with the id, or NoEntry
NoEntry == [id |-> NoId]
Find(s, id) ==
    IF \E i \in 1..Len(s) : s[i].id = id
    THEN s[CHOOSE i \in 1..Len(s) :
              s[i].id = id /\ \A j \in 1..(i - 1) : s[j].id # id]
    ELSE NoEntry

\* ----------------------------------------------------- coordinate transform
\* page.getViewport({ scale }).height
ViewportHeight(pageHeight, sc) == (pageHeight * sc) \div 4

\* PDF space to canvas space, as extractTextFromPage does it:
\* x = transform[4], y = viewport.height - transform[5]
ToCanvas(pdfX, pdfY, pageHeight, sc) ==
    <<pdfX, ViewportHeight(pageHeight, sc) - pdfY>>

\* a conversion back that flips y and forgets the entry's own height
ToPdfFlipOnly(canvasX, canvasY, pageHeight, size) ==
    <<canvasX, pageHeight - canvasY>>

\* canvas space to PDF space, as downloadEditedPDF does it for an entry of
\* the given height (font size of a text, height of an image):
\* x = position_x, y = height - position_y - size
ToPdf(canvasX, canvasY, pageHeight, size) ==
    <<canvasX, pageHeight - canvasY - size>>

\* ---------------------------------------------------------- text extraction
ItemFontSize(item) ==
    LET a == Abs(item.transform[1])
    IN  IF a # 0 THEN a ELSE Max(item.height, MinFontSize)

\* item.width || str.length * fontSize * 0.6, in fifths of a pixel
ItemWidth5(item) ==
    IF item.width # 0 THEN 5 * item.width
    ELSE 3 * Len(Trim(item.str)) * ItemFontSize(item)

Fragment(pageNum, sc, item) ==
    LET at == ToCanvas(item.transform[5], item.transform[6], Doc[pageNum].height, sc)
    IN  [id |-> OriginalId(pageNum, at[1], at[2]),
         page_number |-> pageNum,
         content |-> Trim(item.str),
         position_x |-> at[1],
         position_y |-> at[2],
         font_size |-> ItemFontSize(item),
         color |-> "#000000",
         isOriginal |-> TRUE]

\* { x, y: y - height + fontSize * 0.2, w: width, h: fontSize * 1.2 }, in fifths
MaskOf(pageNum, sc, item) ==
    LET at == ToCanvas(item.transform[5], item.transform[6], Doc[pageNum].height, sc)
        fs == ItemFontSize(item)
    IN  [x |-> 5 * at[1],
         y |-> 5 * at[2] - 6 * fs + fs,
         w |-> ItemWidth5(item),
         h |-> 6 * fs]

\* the items the forEach does not skip: str?.trim() is non-empty
NonEmptyItems(pageNum) ==
    SelectSeq(Doc[pageNum].items, LAMBDA item : Trim(item.str) # <<>>)

OriginalTexts(pageNum, sc) ==
    SeqMap(NonEmptyItems(pageNum), LAMBDA item : Fragment(pageNum, sc, item))

Masks(pageNum, sc) ==
    SeqMap(NonEmptyItems(pageNum), LAMBDA item : MaskOf(pageNum, sc, item))

\* a merge that keeps the user edits of the extracted page only
MergeExtractedOfPage(prevEdits, pageNum, originalTexts) ==
    SelectSeq(prevEdits, LAMBDA e : ~e.isOriginal /\ e.page_number = pageNum)
        \o originalTexts

\* a merge that adds the extracted entries whatever the set holds
MergeExtractedAgain(prevEdits, pageNum, originalTexts) ==
    prevEdits \o originalTexts

\* the functional update of setTextEdits at the end of extractTextFromPage
MergeExtracted(prevEdits, pageNum, originalTexts) ==
    LET userEdits == SelectSeq(prevEdits, LAMBDA e : ~e.isOriginal)
        hasCurrentOriginals ==
            \E i \in 1..Len(prevEdits) :
                prevEdits[i].isOriginal /\ prevEdits[i].page_number = pageNum
    IN  IF ~hasCurrentOriginals THEN userEdits \o originalTexts ELSE prevEdits

\* ------------------------------------------------------------------- export
HexToRgb(hex) ==
    CASE hex = "#000000" -> <<0, 0, 0>>
      [] hex = "#ff0000" -> <<255, 0, 0>>
      [] OTHER -> <<0, 0, 0>>

\* only the first page taken to exist
HasFirstPage(pageNum) == pageNum = 1

\* pages[edit.page_number - 1] is defined
HasPage(pageNum) == pageNum - 1 >= 0 /\ pageNum - 1 < NumPages

\* the page.drawText calls of the first loop, in order
DrawnTexts(texts) ==
    LET drawn == SelectSeq(texts, LAMBDA e : ~e.isOriginal /\ HasPage(e.page_number))
    IN  SeqMap(drawn, LAMBDA e :
            LET at == ToPdf(e.position_x, e.position_y,
                            Doc[e.page_number].height, e.font_size)
            IN  [id |-> e.id, page |-> e.page_number, text |-> e.content,
                 x |-> at[1], y |-> at[2], size |-> e.font_size,
                 color |-> HexToRgb(e.color)])

\* the page.drawImage calls of the second loop, in order; an image whose
\* fetch or embedding throws (its id is in failing) is skipped by the catch
DrawnImages(images, failing) ==
    LET drawn == SelectSeq(images, LAMBDA g :
                     ~g.is_deleted /\ HasPage(g.page_number) /\ g.id \notin failing)
    IN  SeqMap(drawn, LAMBDA g :
            LET at == ToPdf(g.position_x, g.position_y,
                            Doc[g.page_number].height, g.height)
            IN  [id |-> g.id, page |-> g.page_number, x |-> at[1], y |-> at[2],
                 width |-> g.width, height |-> g.height])

\* -------------------------------------------------------------------- state
VARIABLES
    pdf,             \* TRUE once loadPdf has set the document proxy
    currentPage, totalPages, scale,
    textEdits,       \* TextEdit[], in array order
    imageEdits,      \* ImageEdit[], in array order
    isAddingText, isAddingImage,
    selectedEditId, selectedImageId,
    fontSize, textColor,
    dragging,        \* [id, type] of the entry being dragged, or NoDrag
    originalMasks,   \* page number -> mask rectangles
    keyHandler,      \* the textEdits / imageEdits the keydown listener closed over
    focus,           \* the text entry whose input has the keyboard focus, or NoId
    chooser,         \* TRUE while the file chooser of the image input is open
    rows,            \* table pdf_edits
    requests,        \* bag of the calls the table has received: [op, id, by]
    tasks,           \* bag of the asynchronous continuations in flight
    nextUuid,        \* crypto.randomUUID() values handed out so far
    events,          \* user events so far
    download,        \* the PDF last offered for download, or NoDownload
    sequential,      \* TRUE in the runs where the user waits for every
                     \* operation to settle before the next event
    probe,           \* a position taken through the coordinate transform
    bitmap,          \* what the latest renderPage paints: [page, scale, masks]
    last             \* the step just taken: [op, id, newId, ok, toast]

vars ==
    <<pdf, currentPage, totalPages, scale, textEdits, imageEdits, isAddingText,
      isAddingImage, selectedEditId, selectedImageId, fontSize, textColor,
      dragging, originalMasks, keyHandler, focus, chooser, rows, requests, tasks,
      nextUuid, events, download, sequential, probe, bitmap, last>>

fixed == <<sequential, probe>>
view == <<pdf, currentPage, totalPages, scale, fixed>>
tool == <<isAddingText, isAddingImage, fontSize, textColor, chooser>>
selection == <<selectedEditId, selectedImageId, keyHandler, focus>>
store == <<rows, requests>>

NoDrag == [id |-> NoId, type |-> "none"]
NoDownload == [offered |-> FALSE, texts |-> <<>>, images |-> <<>>]
NoRow == [id |-> NoId]
NoProbe == [stage |-> "none"]
NoBitmap == [page |-> 0, scale |-> 0, masks |-> <<>>]

\* What the step just taken was (kept for the statements about single
\* operations): the handler, the id it was called with, the id it minted,
\* whether its durable call succeeded, the toast it showed, the entry it
\* found and the content it was given.  chain follows two sequences of
\* consecutive steps: a content edit that promoted an entry (1), a click
\* on the promoted entry's input (2), a second content edit of it (3) and
\* its success (4); and an extraction directly after an extraction of the
\* same page at the same scale (5).
NoChain == [stage |-> 0, id |-> NoId]
Chain(op, id, newId, ok) ==
    CASE op = "updateEdit.insert" /\ ok -> [stage |-> 1, id |-> newId]
      [] op = "clickInput" /\ last.chain = [stage |-> 1, id |-> id] -> [stage |-> 2, id |-> id]
      [] op = "updateEdit" /\ last.chain = [stage |-> 2, id |-> id] -> [stage |-> 3, id |-> id]
      [] op = "updateEdit.update" /\ ok /\ last.chain = [stage |-> 3, id |-> id] ->
            [stage |-> 4, id |-> id]
      [] op = "extract" /\ ok /\ last.op = "extract" /\ last.ok /\ last.id = id ->
            [stage |-> 5, id |-> id]
      [] OTHER -> NoChain

StepOn(op, id, newId, ok, toast, edit, content) ==
    [op |-> op, id |-> id, newId |-> newId, ok |-> ok, toast |-> toast,
     edit |-> edit, content |-> content, chain |-> Chain(op, id, newId, ok)]

FirstStep(op) ==
    [op |-> op, id |-> NoId, newId |-> NoId, ok |-> TRUE, toast |-> "",
     edit |-> NoEntry, content |-> <<>>, chain |-> NoChain]

Step(op, id, newId, ok, toast) == StepOn(op, id, newId, ok, toast, NoEntry, <<>>)

\* ---------------------------------------------------------------- the table
\* the record saveEdit, updateEdit and onUp insert for a text entry
TextRow(id, e, content) ==
    [id |-> id, report_id |-> ReportId, page_number |-> e.page_number,
     edit_type |-> "text", content |-> content,
     position_x |-> e.position_x, position_y |-> e.position_y,
     width |-> 0, height |-> 0,
     font_size |-> e.font_size, color |-> e.color,
     image_url |-> "", is_deleted |-> FALSE]

\* the record handleImageUpload inserts
ImageRow(g) ==
    [id |-> g.id, report_id |-> ReportId, page_number |-> g.page_number,
     edit_type |-> "image", content |-> <<>>,
     position_x |-> g.position_x, position_y |-> g.position_y,
     width |-> g.width, height |-> g.height,
     font_size |-> DefaultRowFontSize, color |-> "#000000",
     image_url |-> g.image_url, is_deleted |-> FALSE]

\* loadEdits: a text row as a TextEdit, an image row as an ImageEdit
TextOfRow(r) ==
    [id |-> r.id, page_number |-> r.page_number, content |-> r.content,
     position_x |-> r.position_x, position_y |-> r.position_y,
     font_size |-> IF r.font_size # 0 THEN r.font_size ELSE DefaultRowFontSize,
     color |-> IF r.color # "" THEN r.color ELSE "#000000",
     isOriginal |-> FALSE]

ImageOfRow(r) ==
    [id |-> r.id, page_number |-> r.page_number, image_url |-> r.image_url,
     position_x |-> r.position_x, position_y |-> r.position_y,
     width |-> IF r.width # 0 THEN r.width ELSE DefaultImageSize,
     height |-> IF r.height # 0 THEN r.height ELSE DefaultImageSize,
     is_deleted |-> r.is_deleted]

\* The rows of the report when the editor opens: a text edit on page 1, a
\* text edit on a page the document does not have, an image on page 1, an
\* image on a page the document does not have.
StoredRows ==
    { TextRow(Uuid(-1),
              [page_number |-> 1, position_x |-> 50, position_y |-> 100,
               font_size |-> 12, color |-> "#ff0000"], <<"o","l","d">>),
      TextRow(Uuid(-2),
              [page_number |-> NumPages + 1, position_x |-> 10, position_y |-> 10,
               font_size |-> 0, color |-> ""], <<>>),
      ImageRow([id |-> Uuid(-3), page_number |-> 1, image_url |-> "https://host/pic.jpg",
                position_x |-> 20, position_y |-> 30, width |-> 0, height |-> 80]),
      ImageRow([id |-> Uuid(-4), page_number |-> NumPages + 1,
                image_url |-> "https://host/pic.jpg",
                position_x |-> 5, position_y |-> 5, width |-> 40, height |-> 40]) }

\* select("*").eq("report_id", reportId): the rows in the order the table
\* returns them (here: by id)
RECURSIVE RowsInOrder(_)
RowsInOrder(rs) ==
    IF rs = {} THEN <<>>
    ELSE LET r == CHOOSE a \in rs : \A b \in rs : a.id[2] >= b.id[2]
         IN  <<r>> \o RowsInOrder(rs \ {r})

Insert(table, row) == table \cup {row}
Update(table, id, F(_)) == {IF r.id = id THEN F(r) ELSE r : r \in table}
Delete(table, id) == {r \in table : r.id # id}

Request(op, id, by) == SetToBag({[op |-> op, id |-> id, by |-> by]})

\* ------------------------------------------------------------------- tasks
Task(kind, id, newId, content, page, sc, req, texts, images) ==
    [kind |-> kind, id |-> id, newId |-> newId, content |-> content,
     page |-> page, scale |-> sc, req |-> req, texts |-> texts, images |-> images]

SimpleTask(kind) == Task(kind, NoId, NoId, <<>>, 0, 0, NoRow, <<>>, <<>>)
\* the document a load or an extraction works on, named by its page count
Document(numPages) == <<"document", numPages, 0, 0>>
\* loadPdf closes over the pdfUrl of the render that called it
LoadPdfTask(numPages) ==
    Task("loadPdf", Document(numPages), NoId, <<>>, 0, 0, NoRow, <<>>, <<>>)
\* extractTextFromPage is handed the document proxy and the page number
ExtractTask(numPages, pageNum, sc) ==
    Task("extract", Document(numPages), NoId, <<>>, pageNum, sc, NoRow, <<>>, <<>>)

Pending == BagCardinality(tasks)
Spawn(t) == tasks (+) SetToBag({t})
Finish(t) == tasks (-) SetToBag({t})
CanSpawn == Pending < MaxPending

\* useEffect [pdf, currentPage, scale]: extraction is started when the page
\* or the scale has changed and the document is loaded; the document is the
\* one of totalPages pages
ExtractionEffect(bag, pdf2, page2, scale2) ==
    IF pdf2 /\ page2 # 0 /\ <<pdf2, page2, scale2>> # <<pdf, currentPage, scale>>
    THEN bag (+) SetToBag({ExtractTask(totalPages, page2, scale2)})
    ELSE bag

\* useEffect [selectedEditId, selectedImageId]: the keydown listener is
\* registered again, closing over the edits of that render
KeyEffect(edit2, image2, texts2, images2) ==
    IF <<edit2, image2>> # <<selectedEditId, selectedImageId>>
    THEN [texts |-> texts2, images |-> images2]
    ELSE keyHandler

\* The render effect (deps [currentPage, scale, pdf, textEdits]): when one of
\* them has changed and the document is loaded, renderPage draws the page at
\* the scale of the new render and fills the masks that render holds for
\* the page. Every loaded document is a new proxy, so a load that succeeds
\* changes pdf. getPage rejects a page the document does not have and the
\* canvas keeps what it shows.
RenderEffect ==
    bitmap' =
        IF /\ pdf'
           /\ \/ <<currentPage', scale', pdf', textEdits'>> # <<currentPage, scale, pdf, textEdits>>
              \/ last'.op = "loadPdf" /\ last'.ok
           /\ currentPage' <= totalPages'
        THEN [page |-> currentPage', scale |-> scale',
              masks |-> IF currentPage' \in DOMAIN originalMasks'
                        THEN originalMasks'[currentPage'] ELSE <<>>]
        ELSE bitmap

\* A mouse press outside the focused overlay input: the input loses the
\* focus and its onBlur clears selectedEditId.
Defocus ==
    /\ focus' = NoId
    /\ selectedEditId' = IF focus # NoId THEN NoId ELSE selectedEditId
    /\ selectedImageId' = selectedImageId
    /\ keyHandler' = KeyEffect(selectedEditId', selectedImageId, textEdits, imageEdits)

\* The text entries are rendered with key={edit.id}: an input whose entry
\* is gone, or has another id, is unmounted and the focus is lost without
\* a blur event.
KeepFocus(texts2) ==
    /\ focus' = IF \E i \in 1..Len(texts2) : texts2[i].id = focus THEN focus ELSE NoId
    /\ UNCHANGED <<selectedEditId, selectedImageId, keyHandler>>

\* onClick of an image overlay: setSelectedImageId(img.id); the press that
\* began the click has taken the focus from an input
Select(imageId) ==
    /\ focus' = NoId
    /\ selectedEditId' = IF focus # NoId THEN NoId ELSE selectedEditId
    /\ selectedImageId' = imageId
    /\ keyHandler' = KeyEffect(selectedEditId', imageId, textEdits, imageEdits)

\* ------------------------------------------------------------------- start
\* the component after its first render and its mount effects: loadPdf and
\* loadEdits have been called and are waiting
Mounted(seq) ==
    /\ pdf = FALSE
    /\ currentPage = 1
    /\ totalPages = 0
    /\ scale = InitialScale
    /\ textEdits = <<>>
    /\ imageEdits = <<>>
    /\ isAddingText = FALSE
    /\ isAddingImage = FALSE
    /\ selectedEditId = NoId
    /\ selectedImageId = NoId
    /\ fontSize = InitialFontSize
    /\ textColor = InitialColor
    /\ dragging = NoDrag
    /\ originalMasks = [p \in {} |-> <<>>]
    /\ keyHandler = [texts |-> <<>>, images |-> <<>>]
    /\ focus = NoId
    /\ chooser = FALSE
    /\ rows = StoredRows
    /\ requests = EmptyBag
    /\ tasks = SetToBag({LoadPdfTask(NumPages), SimpleTask("loadEdits")})
    /\ nextUuid = 0
    /\ events = 0
    /\ download = NoDownload
    /\ sequential = seq
    /\ probe = NoProbe
    /\ bitmap = NoBitmap
    /\ last = FirstStep("mount")

Init == Mounted(FALSE)

\* the editor once loadEdits and then loadPdf have succeeded: the stored
\* edits are in memory; bag holds what is in flight, position the probe
Loaded(seq, bag, position) ==
    /\ pdf = TRUE
    /\ currentPage = 1
    /\ totalPages = NumPages
    /\ scale = InitialScale
    /\ textEdits = SeqMap(SelectSeq(RowsInOrder(StoredRows), LAMBDA r : r.edit_type = "text"),
                          TextOfRow)
    /\ imageEdits = SeqMap(SelectSeq(RowsInOrder(StoredRows), LAMBDA r : r.edit_type = "image"),
                           ImageOfRow)
    /\ isAddingText = FALSE
    /\ isAddingImage = FALSE
    /\ selectedEditId = NoId
    /\ selectedImageId = NoId
    /\ fontSize = InitialFontSize
    /\ textColor = InitialColor
    /\ dragging = NoDrag
    /\ originalMasks = [p \in {} |-> <<>>]
    /\ keyHandler = [texts |-> <<>>, images |-> <<>>]
    /\ focus = NoId
    /\ chooser = FALSE
    /\ rows = StoredRows
    /\ requests = EmptyBag
    /\ tasks = bag
    /\ nextUuid = 0
    /\ events = 0
    /\ download = NoDownload
    /\ sequential = seq
    /\ probe = position
    /\ bitmap = [page |-> 1, scale |-> InitialScale, masks |-> <<>>]
    /\ last = FirstStep("loadPdf")

\* ... and the extraction of page 1 has been started
Ready(seq) == Loaded(seq, SetToBag({ExtractTask(NumPages, 1, InitialScale)}), NoProbe)

\* ------------------------------------------------------------------ loading
\* loadPdf after getDocument has settled
LoadPdfDone ==
    \E t \in BagToSet(tasks), ok \in BOOLEAN :
        /\ t.kind = "loadPdf"
        /\ IF ok
           THEN /\ pdf' = TRUE
                /\ totalPages' = t.id[2]
                /\ tasks' = Finish(t) (+) SetToBag({ExtractTask(t.id[2], currentPage, scale)})
                /\ last' = Step("loadPdf", NoId, NoId, TRUE, "")
           ELSE /\ UNCHANGED <<pdf, totalPages>>
                /\ tasks' = Finish(t)
                /\ last' = Step("loadPdf", NoId, NoId, FALSE, "Failed to load PDF")
        /\ UNCHANGED <<currentPage, scale, fixed, textEdits, imageEdits, tool,
                       selection, dragging, originalMasks, store, nextUuid, events,
                       download>>
        /\ RenderEffect

\* loadEdits after the select has settled
LoadEditsDone ==
    \E t \in BagToSet(tasks), ok \in BOOLEAN :
        /\ t.kind = "loadEdits"
        /\ tasks' = Finish(t)
        /\ IF ok
           THEN LET data == RowsInOrder(rows)
                IN  /\ textEdits' = SeqMap(SelectSeq(data, LAMBDA r : r.edit_type = "text"),
                                           TextOfRow)
                    /\ imageEdits' = SeqMap(SelectSeq(data, LAMBDA r : r.edit_type = "image"),
                                            ImageOfRow)
           ELSE UNCHANGED <<textEdits, imageEdits>>
        /\ last' = Step("loadEdits", NoId, NoId, ok, "")
        /\ KeepFocus(textEdits')
        /\ UNCHANGED <<view, tool, dragging, originalMasks, store,
                       nextUuid, events, download>>
        /\ RenderEffect

\* extractTextFromPage after getPage and getTextContent have settled; the
\* scale is the one of the render that started it
ExtractDone ==
    \E t \in BagToSet(tasks), ok \in BOOLEAN :
        /\ t.kind = "extract"
        /\ ok => t.page <= t.id[2]
        /\ tasks' = Finish(t)
        /\ IF ok
           THEN /\ originalMasks' =
                       [p \in DOMAIN originalMasks \cup {t.page} |->
                           IF p = t.page THEN Masks(t.page, t.scale) ELSE originalMasks[p]]
                /\ textEdits' = MergeExtracted(textEdits, t.page, OriginalTexts(t.page, t.scale))
           ELSE UNCHANGED <<originalMasks, textEdits>>
        /\ last' = Step("extract", <<"page", t.page, t.scale, 0>>, NoId, ok, "")
        /\ KeepFocus(textEdits')
        /\ UNCHANGED <<view, imageEdits, tool, dragging, store,
                       nextUuid, events, download>>
        /\ RenderEffect

\* --------------------------------------------------------------- navigation
\* the user can act on the page: the file chooser, a modal dialog, is closed
CanAct == events < MaxEvents /\ (sequential => tasks = EmptyBag) /\ ~chooser
\* the user can act on the open file chooser
CanChoose == events < MaxEvents /\ (sequential => tasks = EmptyBag) /\ chooser

GoToPreviousPage ==
    /\ CanAct /\ CanSpawn
    /\ currentPage > 1
    /\ currentPage' = currentPage - 1
    /\ tasks' = ExtractionEffect(tasks, pdf, currentPage - 1, scale)
    /\ events' = events + 1
    /\ last' = Step("goToPreviousPage", NoId, NoId, TRUE, "")
    /\ Defocus
    /\ UNCHANGED <<pdf, totalPages, scale, fixed, textEdits, imageEdits, tool, dragging, originalMasks, store, nextUuid, download>>
    /\ RenderEffect

GoToNextPage ==
    /\ CanAct /\ CanSpawn
    /\ currentPage < totalPages
    /\ currentPage' = currentPage + 1
    /\ tasks' = ExtractionEffect(tasks, pdf, currentPage + 1, scale)
    /\ events' = events + 1
    /\ last' = Step("goToNextPage", NoId, NoId, TRUE, "")
    /\ Defocus
    /\ UNCHANGED <<pdf, totalPages, scale, fixed, textEdits, imageEdits, tool, dragging, originalMasks, store, nextUuid, download>>
    /\ RenderEffect

ZoomIn ==
    /\ CanAct /\ CanSpawn
    /\ scale' = Min(scale + ZoomStep, MaxScale)
    /\ scale' # scale
    /\ tasks' = ExtractionEffect(tasks, pdf, currentPage, scale')
    /\ events' = events + 1
    /\ last' = Step("zoomIn", NoId, NoId, TRUE, "")
    /\ Defocus
    /\ UNCHANGED <<pdf, currentPage, totalPages, fixed, textEdits, imageEdits, tool,
                   dragging, originalMasks, store, nextUuid, download>>
    /\ RenderEffect

ZoomOut ==
    /\ CanAct /\ CanSpawn
    /\ scale' = Max(scale - ZoomStep, MinScale)
    /\ scale' # scale
    /\ tasks' = ExtractionEffect(tasks, pdf, currentPage, scale')
    /\ events' = events + 1
    /\ last' = Step("zoomOut", NoId, NoId, TRUE, "")
    /\ Defocus
    /\ UNCHANGED <<pdf, currentPage, totalPages, fixed, textEdits, imageEdits, tool,
                   dragging, originalMasks, store, nextUuid, download>>
    /\ RenderEffect

\* The parent renders the editor with another pdfUrl: the effect on
\* [pdfUrl, reportId] runs again and calls loadPdf and loadEdits. The state
\* of the component, currentPage included, is kept.
ChangePdfUrl ==
    \E numPages \in DocumentSizes :
        /\ CanAct /\ Pending + 2 <= MaxPending
        /\ tasks' = tasks (+) SetToBag({LoadPdfTask(numPages)})
                           (+) SetToBag({SimpleTask("loadEdits")})
        /\ events' = events + 1
        /\ last' = Step("changePdfUrl", Document(numPages), NoId, TRUE, "")
        /\ UNCHANGED <<view, textEdits, imageEdits, tool, selection, dragging,
                       originalMasks, store, nextUuid, download>>
        /\ RenderEffect

\* ------------------------------------------------------------------ inputs
\* what the user types into an overlay input
Contents == { <<"9","9">>, <<"7">> }
\* where the user clicks on the canvas (e.clientX - rect.left, e.clientY - rect.top)
ClickPositions == { <<120, 200>> }
\* where a drag takes an entry (e.clientX - rect.left - offsetX, ...)
DragPositions == { <<70, 90>>, <<75, 95>> }
\* where handleImageUpload puts an image (rect.width / 2 - 100, rect.height / 2 - 100)
ImagePositions == { <<300, 500>> }
\* the data URL FileReader produces for the chosen file
ImageUrls == { "data:image/png;base64,AAAA" }
FontSizes == { 16, 24 }
Colors == { "#000000", "#ff0000" }

Shown(e) == e.page_number = currentPage

\* --------------------------------------------------- in-memory edit updates
\* an updateEdit that adds the edited version and leaves the Original in place
PromotedBeside(texts, editId, newId, content) ==
    texts \o SeqMap(SelectSeq(texts, LAMBDA e : e.id = editId), LAMBDA e :
                 [e EXCEPT !.content = content, !.isOriginal = FALSE, !.id = newId])

\* updateEdit, Original target:
\* textEdits.map(e => e.id === editId ? {...e, content, isOriginal: false, id: newEdit.id} : e)
Promoted(texts, editId, newId, content) ==
    SeqMap(texts, LAMBDA e :
        IF e.id = editId
        THEN [e EXCEPT !.content = content, !.isOriginal = FALSE, !.id = newId]
        ELSE e)

\* an updateEdit that adds the edited version of a user entry beside it
WithContentBeside(texts, editId, content) ==
    texts \o SeqMap(SelectSeq(texts, LAMBDA e : e.id = editId), LAMBDA e :
                 [e EXCEPT !.content = content])

\* updateEdit, other target: textEdits.map(e => e.id === editId ? {...e, content} : e)
WithContent(texts, editId, content) ==
    SeqMap(texts, LAMBDA e : IF e.id = editId THEN [e EXCEPT !.content = content] ELSE e)

\* deleteEdit: textEdits.filter(e => e.id !== editId)
Without(texts, editId) == SelectSeq(texts, LAMBDA e : e.id # editId)

\* onMove: prev.map(t => t.id === dragging.id ? {...t, position_x: newX, position_y: newY} : t)
Moved(edits, id, x, y) ==
    SeqMap(edits, LAMBDA e :
        IF e.id = id THEN [e EXCEPT !.position_x = x, !.position_y = y] ELSE e)

\* an onUp that gives the entry its new id and leaves it marked Original
RenamedOnly(prev, oldId, newId) ==
    SeqMap(prev, LAMBDA e : IF e.id = oldId THEN [e EXCEPT !.id = newId] ELSE e)

\* onUp, Original target: prev.map(t => t.id === edit.id ? {...t, id: newId, isOriginal: false} : t)
Renamed(prev, oldId, newId) ==
    SeqMap(prev, LAMBDA e :
        IF e.id = oldId THEN [e EXCEPT !.id = newId, !.isOriginal = FALSE] ELSE e)

\* deleteImage: imageEdits.map(img => img.id === imageId ? {...img, is_deleted: true} : img)
SoftDeleted(images, imageId) ==
    SeqMap(images, LAMBDA g : IF g.id = imageId THEN [g EXCEPT !.is_deleted = TRUE] ELSE g)

\* ------------------------------------------------------------------- create
\* the Text button of the toolbar
ToggleAddText ==
    /\ CanAct
    /\ isAddingText' = ~isAddingText
    /\ isAddingImage' = FALSE
    /\ events' = events + 1
    /\ last' = Step("toggleText", NoId, NoId, TRUE, "")
    /\ Defocus
    /\ UNCHANGED <<view, textEdits, imageEdits, fontSize, textColor, chooser, dragging, originalMasks, store, tasks, nextUuid, download>>
    /\ RenderEffect

\* the Image button of the toolbar: it also opens the file chooser
ToggleAddImage ==
    /\ CanAct
    /\ isAddingImage' = ~isAddingImage
    /\ isAddingText' = FALSE
    /\ chooser' = TRUE
    /\ events' = events + 1
    /\ last' = Step("toggleImage", NoId, NoId, TRUE, "")
    /\ Defocus
    /\ UNCHANGED <<view, textEdits, imageEdits, fontSize, textColor, dragging, originalMasks, store, tasks, nextUuid, download>>
    /\ RenderEffect

SetFontSize ==
    \E n \in FontSizes :
        /\ CanAct
        /\ n # fontSize
        /\ fontSize' = n
        /\ events' = events + 1
        /\ last' = Step("setFontSize", NoId, NoId, TRUE, "")
        /\ Defocus
        /\ UNCHANGED <<view, textEdits, imageEdits, isAddingText, isAddingImage,
                       textColor, chooser, dragging, originalMasks, store,
                       tasks, nextUuid, download>>
        /\ RenderEffect

SetTextColor ==
    \E c \in Colors :
        /\ CanAct
        /\ c # textColor
        /\ textColor' = c
        /\ events' = events + 1
        /\ last' = Step("setTextColor", NoId, NoId, TRUE, "")
        /\ Defocus
        /\ UNCHANGED <<view, textEdits, imageEdits, isAddingText, isAddingImage,
                       fontSize, chooser, dragging, originalMasks, store,
                       tasks, nextUuid, download>>
        /\ RenderEffect

\* handleCanvasClick up to its await; saveEdit has sent its insert
CanvasClick ==
    \E at \in ClickPositions :
        /\ CanAct
        /\ isAddingText \/ isAddingImage
        /\ IF isAddingText
           THEN LET newEdit == [id |-> Uuid(nextUuid + 1), page_number |-> currentPage,
                                content |-> DefaultContent,
                                position_x |-> at[1], position_y |-> at[2],
                                font_size |-> fontSize, color |-> textColor,
                                isOriginal |-> FALSE]
                IN  /\ CanSpawn
                    /\ nextUuid' = nextUuid + 1
                    /\ textEdits' = textEdits \o <<newEdit>>
                    /\ isAddingText' = FALSE
                    /\ requests' = requests (+) Request("insert", newEdit.id, "saveEdit")
                    /\ tasks' = Spawn(Task("saveEdit", newEdit.id, NoId, <<>>, 0, 0,
                                           TextRow(newEdit.id, newEdit, newEdit.content),
                                           <<>>, <<>>))
                    /\ last' = Step("create", NoId, newEdit.id, TRUE, "")
                    /\ UNCHANGED chooser
           ELSE /\ chooser' = TRUE
                /\ last' = Step("canvasClick", NoId, NoId, TRUE, "")
                /\ UNCHANGED <<nextUuid, textEdits, isAddingText, requests, tasks>>
        /\ events' = events + 1
        /\ Defocus
        /\ UNCHANGED <<view, imageEdits, isAddingImage, fontSize, textColor, dragging, originalMasks, rows, download>>
        /\ RenderEffect

\* saveEdit after its insert has settled
SaveEditDone ==
    \E t \in BagToSet(tasks), ok \in BOOLEAN :
        /\ t.kind = "saveEdit"
        /\ tasks' = Finish(t)
        /\ rows' = IF ok THEN Insert(rows, t.req) ELSE rows
        /\ last' = Step("saveEdit", t.id, NoId, ok, IF ok THEN "" ELSE "Failed to save edit")
        /\ UNCHANGED <<view, textEdits, imageEdits, tool, selection, dragging,
                       originalMasks, requests, nextUuid, events, download>>
        /\ RenderEffect

\* ------------------------------------------------------------- content edit
\* updateEdit up to its await, called by the focused input as the user types
UpdateEdit ==
    \E i \in 1..Len(textEdits), content \in Contents :
        LET editId == textEdits[i].id
            edit == Find(textEdits, editId)
        IN  /\ CanAct /\ CanSpawn
            /\ Shown(textEdits[i])
            /\ focus = editId
            /\ content # textEdits[i].content
            /\ IF edit.isOriginal
               THEN LET newId == Uuid(nextUuid + 1)
                    IN                        /\ nextUuid' = nextUuid + 1
                        /\ requests' = requests (+) Request("insert", newId, "updateEdit")
                        /\ tasks' = Spawn(Task("updateEdit.insert", editId, newId, content,
                                               0, 0, TextRow(newId, edit, content),
                                               textEdits, <<>>))
                        /\ last' = StepOn("updateEdit", editId, newId, TRUE, "", edit, content)
               ELSE /\ requests' = requests (+) Request("update", editId, "updateEdit")
                    /\ tasks' = Spawn(Task("updateEdit.update", editId, NoId, content,
                                           0, 0, NoRow, textEdits, <<>>))
                    /\ last' = StepOn("updateEdit", editId, NoId, TRUE, "", edit, content)
                    /\ UNCHANGED nextUuid
            /\ events' = events + 1
            /\ UNCHANGED <<view, textEdits, imageEdits, tool, selection, dragging,
                           originalMasks, rows, download>>
            /\ RenderEffect

\* updateEdit of an Original entry after its insert has settled
UpdateEditInsertDone ==
    \E t \in BagToSet(tasks), ok \in BOOLEAN :
        /\ t.kind = "updateEdit.insert"
        /\ tasks' = Finish(t)
        /\ IF ok
           THEN /\ rows' = Insert(rows, t.req)
                /\ textEdits' = Promoted(t.texts, t.id, t.newId, t.content)
           ELSE UNCHANGED <<rows, textEdits>>
        /\ last' = StepOn("updateEdit.insert", t.id, t.newId, ok, "",
                          Find(t.texts, t.id), t.content)
        /\ KeepFocus(textEdits')
        /\ UNCHANGED <<view, imageEdits, tool, dragging, originalMasks,
                       requests, nextUuid, events, download>>
        /\ RenderEffect

\* updateEdit of another entry after its update has settled
UpdateEditUpdateDone ==
    \E t \in BagToSet(tasks), ok \in BOOLEAN :
        /\ t.kind = "updateEdit.update"
        /\ tasks' = Finish(t)
        /\ IF ok
           THEN /\ rows' = Update(rows, t.id, LAMBDA r : [r EXCEPT !.content = t.content])
                /\ textEdits' = WithContent(t.texts, t.id, t.content)
           ELSE UNCHANGED <<rows, textEdits>>
        /\ last' = StepOn("updateEdit.update", t.id, NoId, ok, "",
                          Find(t.texts, t.id), t.content)
        /\ KeepFocus(textEdits')
        /\ UNCHANGED <<view, imageEdits, tool, dragging, originalMasks,
                       requests, nextUuid, events, download>>
        /\ RenderEffect

\* ------------------------------------------------------------------- remove
\* a deleteEdit that sends its delete whatever the entry is
DeleteEditAlways(texts, editId, via) ==
    LET edit == Find(texts, editId)
    IN  IF edit.id = NoId
        THEN /\ last' = Step(via, editId, NoId, FALSE, "")
             /\ UNCHANGED <<textEdits, requests, tasks>>
        ELSE /\ CanSpawn
             /\ requests' = requests (+) Request("delete", editId, "deleteEdit")
             /\ tasks' = Spawn(Task("deleteEdit", editId, NoId, <<>>, 0, 0, NoRow,
                                    texts, <<>>))
             /\ last' = StepOn(via, editId, NoId, TRUE, "", edit, <<>>)
             /\ UNCHANGED textEdits

\* deleteEdit(editId) up to its await or, for an Original entry, to its end;
\* texts is the textEdits the called closure holds
DeleteEditCall(texts, editId, via) ==
    LET edit == Find(texts, editId)
    IN  IF edit.id = NoId
        THEN /\ last' = Step(via, editId, NoId, FALSE, "")
             /\ UNCHANGED <<textEdits, requests, tasks>>
        ELSE IF edit.isOriginal
        THEN /\ textEdits' = Without(texts, editId)
             /\ last' = StepOn(via, editId, NoId, TRUE, "Original text hidden", edit, <<>>)
             /\ UNCHANGED <<requests, tasks>>
        ELSE /\ CanSpawn
             /\ requests' = requests (+) Request("delete", editId, "deleteEdit")
             /\ tasks' = Spawn(Task("deleteEdit", editId, NoId, <<>>, 0, 0, NoRow,
                                    texts, <<>>))
             /\ last' = StepOn(via, editId, NoId, TRUE, "", edit, <<>>)
             /\ UNCHANGED textEdits

\* the delete button of a shown text entry
DeleteEditButton ==
    \E i \in 1..Len(textEdits) :
        /\ CanAct
        /\ Shown(textEdits[i])
        /\ DeleteEditCall(textEdits, textEdits[i].id, "deleteEdit")
        /\ events' = events + 1
        /\ Defocus
        /\ UNCHANGED <<view, imageEdits, tool, dragging, originalMasks,
                       rows, nextUuid, download>>
        /\ RenderEffect

\* deleteEdit after its delete has settled
DeleteEditDone ==
    \E t \in BagToSet(tasks), ok \in BOOLEAN :
        /\ t.kind = "deleteEdit"
        /\ tasks' = Finish(t)
        /\ IF ok
           THEN /\ rows' = Delete(rows, t.id)
                /\ textEdits' = Without(t.texts, t.id)
           ELSE UNCHANGED <<rows, textEdits>>
        /\ last' = StepOn("deleteEdit.done", t.id, NoId, ok,
                          IF ok THEN "Edit removed" ELSE "", Find(t.texts, t.id), <<>>)
        /\ KeepFocus(textEdits')
        /\ UNCHANGED <<view, imageEdits, tool, dragging, originalMasks,
                       requests, nextUuid, events, download>>
        /\ RenderEffect

\* ------------------------------------------------------------------- images
ShownImage(g) == g.page_number = currentPage /\ ~g.is_deleted

\* handleImageUpload: a file was chosen, FileReader.readAsDataURL is started;
\* its onload closes over the imageEdits and the page of this render
ImageUpload ==
    \E url \in ImageUrls :
        /\ CanChoose /\ CanSpawn
        /\ chooser' = FALSE
        /\ tasks' = Spawn(Task("readFile", NoId, NoId, <<>>, currentPage, 0,
                               [id |-> NoId, image_url |-> url], <<>>, imageEdits))
        /\ events' = events + 1
        /\ last' = Step("imageUpload", NoId, NoId, TRUE, "")
        /\ UNCHANGED <<view, textEdits, imageEdits, isAddingText, isAddingImage,
                       fontSize, textColor, selection, dragging, originalMasks, store,
                       nextUuid, download>>
        /\ RenderEffect

\* the file chooser is closed without a file
ChooserCancel ==
    /\ CanChoose
    /\ chooser' = FALSE
    /\ events' = events + 1
    /\ last' = Step("chooserCancel", NoId, NoId, TRUE, "")
    /\ UNCHANGED <<view, textEdits, imageEdits, isAddingText, isAddingImage, fontSize,
                   textColor, selection, dragging, originalMasks, store, tasks,
                   nextUuid, download>>
    /\ RenderEffect

\* reader.onload up to its await: the image is added and its insert is sent
FileReadDone ==
    \E t \in BagToSet(tasks), at \in ImagePositions :
        LET newImage == [id |-> Uuid(nextUuid + 1), page_number |-> t.page,
                         image_url |-> t.req.image_url,
                         position_x |-> at[1], position_y |-> at[2],
                         width |-> DefaultImageSize, height |-> DefaultImageSize,
                         is_deleted |-> FALSE]
        IN  /\ t.kind = "readFile"
            /\ nextUuid' = nextUuid + 1
            /\ imageEdits' = t.images \o <<newImage>>
            /\ isAddingImage' = FALSE
            /\ requests' = requests (+) Request("insert", newImage.id, "handleImageUpload")
            /\ tasks' = Finish(t) (+)
                        SetToBag({Task("imageInsert", newImage.id, NoId, <<>>, 0, 0,
                                       ImageRow(newImage), <<>>, <<>>)})
            /\ last' = Step("imageCreate", NoId, newImage.id, TRUE, "")
            /\ UNCHANGED <<view, textEdits, isAddingText, fontSize, textColor, chooser,
                           selection, dragging, originalMasks, rows, events, download>>
            /\ RenderEffect

\* reader.onload after its insert has settled: the error is not looked at
ImageInsertDone ==
    \E t \in BagToSet(tasks), ok \in BOOLEAN :
        /\ t.kind = "imageInsert"
        /\ tasks' = Finish(t)
        /\ rows' = IF ok THEN Insert(rows, t.req) ELSE rows
        /\ last' = Step("imageInsert", t.id, NoId, ok, "Image inserted successfully")
        /\ UNCHANGED <<view, textEdits, imageEdits, tool, selection, dragging,
                       originalMasks, requests, nextUuid, events, download>>
        /\ RenderEffect

\* deleteImage(imageId) up to its await; images is the imageEdits the called
\* closure holds
DeleteImageCall(images, imageId, via) ==
    /\ CanSpawn
    /\ requests' = requests (+) Request("update", imageId, "deleteImage")
    /\ tasks' = Spawn(Task("deleteImage", imageId, NoId, <<>>, 0, 0, NoRow, <<>>, images))
    /\ last' = Step(via, imageId, NoId, TRUE, "")

\* the delete button of a shown image; the click goes on to the onClick of
\* the image's overlay, which selects the image
DeleteImageButton ==
    \E i \in 1..Len(imageEdits) :
        /\ CanAct
        /\ ShownImage(imageEdits[i])
        /\ DeleteImageCall(imageEdits, imageEdits[i].id, "deleteImage")
        /\ events' = events + 1
        /\ Select(imageEdits[i].id)
        /\ UNCHANGED <<view, textEdits, imageEdits, tool, dragging,
                       originalMasks, rows, nextUuid, download>>
        /\ RenderEffect

\* deleteImage after its update has settled
DeleteImageDone ==
    \E t \in BagToSet(tasks), ok \in BOOLEAN :
        /\ t.kind = "deleteImage"
        /\ tasks' = Finish(t)
        /\ IF ok
           THEN /\ rows' = Update(rows, t.id, LAMBDA r : [r EXCEPT !.is_deleted = TRUE])
                /\ imageEdits' = SoftDeleted(t.images, t.id)
           ELSE UNCHANGED <<rows, imageEdits>>
        /\ last' = Step("deleteImage.done", t.id, NoId, ok,
                        IF ok THEN "Image deleted from PDF" ELSE "")
        /\ UNCHANGED <<view, textEdits, tool, selection, dragging, originalMasks,
                       requests, nextUuid, events, download>>
        /\ RenderEffect

\* ---------------------------------------------------------------- selection
\* click on the input of a shown text entry: it takes the focus (the input
\* that had it is blurred first) and its onClick selects the entry
ClickInput ==
    \E i \in 1..Len(textEdits) :
        /\ CanAct
        /\ Shown(textEdits[i])
        /\ focus # textEdits[i].id
        /\ focus' = textEdits[i].id
        /\ selectedEditId' = textEdits[i].id
        /\ keyHandler' = KeyEffect(textEdits[i].id, selectedImageId, textEdits, imageEdits)
        /\ events' = events + 1
        /\ last' = Step("clickInput", textEdits[i].id, NoId, TRUE, "")
        /\ UNCHANGED <<view, textEdits, imageEdits, tool, selectedImageId, dragging,
                       originalMasks, store, tasks, nextUuid, download>>
        /\ RenderEffect

\* the focused input loses the focus to something outside the editor
BlurInput ==
    /\ CanAct
    /\ focus # NoId
    /\ Defocus
    /\ events' = events + 1
    /\ last' = Step("blurInput", focus, NoId, TRUE, "")
    /\ UNCHANGED <<view, textEdits, imageEdits, tool, dragging, originalMasks, store,
                   tasks, nextUuid, download>>
    /\ RenderEffect

\* Delete or Backspace: the listener calls the deleteEdit / deleteImage it
\* closed over when the selection last changed
KeyDelete ==
    /\ CanAct
    /\ IF selectedEditId # NoId
       THEN /\ DeleteEditCall(keyHandler.texts, selectedEditId, "keyDeleteEdit")
            /\ UNCHANGED imageEdits
       ELSE /\ selectedImageId # NoId
            /\ DeleteImageCall(keyHandler.images, selectedImageId, "keyDeleteImage")
            /\ UNCHANGED <<textEdits, imageEdits>>
    /\ events' = events + 1
    /\ KeepFocus(textEdits')
    /\ UNCHANGED <<view, tool, dragging, originalMasks, rows, nextUuid,
                   download>>
    /\ RenderEffect

\* --------------------------------------------------------------------- drag
\* mousedown on a shown text entry, outside its input and its button; the
\* blur of a focused input comes after the handler and clears the selection
MouseDownText ==
    \E i \in 1..Len(textEdits) :
        /\ CanAct
        /\ Shown(textEdits[i])
        /\ dragging' = [id |-> textEdits[i].id, type |-> "text"]
        /\ focus' = NoId
        /\ selectedEditId' = IF focus # NoId THEN NoId ELSE textEdits[i].id
        /\ keyHandler' = KeyEffect(selectedEditId', selectedImageId, textEdits, imageEdits)
        /\ events' = events + 1
        /\ last' = Step("mouseDownText", textEdits[i].id, NoId, TRUE, "")
        /\ UNCHANGED <<view, textEdits, imageEdits, tool, selectedImageId,
                       originalMasks, store, tasks, nextUuid, download>>
        /\ RenderEffect

\* mousedown on a shown image, outside its button
MouseDownImage ==
    \E i \in 1..Len(imageEdits) :
        /\ CanAct
        /\ ShownImage(imageEdits[i])
        /\ dragging' = [id |-> imageEdits[i].id, type |-> "image"]
        /\ events' = events + 1
        /\ last' = Step("mouseDownImage", imageEdits[i].id, NoId, TRUE, "")
        /\ Defocus
        /\ UNCHANGED <<view, textEdits, imageEdits, tool, originalMasks,
                       store, tasks, nextUuid, download>>
        /\ RenderEffect

\* onMove
MouseMove ==
    \E at \in DragPositions :
        /\ CanAct
        /\ dragging # NoDrag
        /\ IF dragging.type = "text"
           THEN /\ textEdits' = Moved(textEdits, dragging.id, at[1], at[2])
                /\ textEdits' # textEdits
                /\ UNCHANGED imageEdits
           ELSE /\ imageEdits' = Moved(imageEdits, dragging.id, at[1], at[2])
                /\ imageEdits' # imageEdits
                /\ UNCHANGED textEdits
        /\ events' = events + 1
        /\ last' = Step("mouseMove", dragging.id, NoId, TRUE, "")
        /\ UNCHANGED <<view, tool, selection, dragging, originalMasks, store, tasks,
                       nextUuid, download>>
        /\ RenderEffect

\* onUp up to its await or, when the dragged entry is not found, to its end.
\* A release over an image overlay (the image is under the pointer) is
\* followed by the click that selects the image.
MouseUp ==
    /\ CanAct
    /\ dragging # NoDrag
    /\ LET edit == Find(IF dragging.type = "text" THEN textEdits ELSE imageEdits,
                        dragging.id)
       IN  IF edit.id = NoId
           THEN /\ dragging' = NoDrag
                /\ last' = Step("mouseUp", dragging.id, NoId, FALSE, "")
                /\ UNCHANGED <<requests, tasks, nextUuid>>
           ELSE IF dragging.type = "text" /\ edit.isOriginal
           THEN LET newId == Uuid(nextUuid + 1)
                IN  /\ CanSpawn
                    /\ nextUuid' = nextUuid + 1
                    /\ requests' = requests (+) Request("insert", newId, "onUp")
                    /\ tasks' = Spawn(Task("onUp.insert", edit.id, newId, <<>>, 0, 0,
                                           TextRow(newId, edit, edit.content), <<>>, <<>>))
                    /\ last' = StepOn("mouseUp", edit.id, newId, TRUE, "", edit, <<>>)
                    /\ UNCHANGED dragging
           ELSE /\ CanSpawn
                /\ requests' = requests (+) Request("update", edit.id, "onUp")
                /\ tasks' = Spawn(Task("onUp.update", edit.id, NoId, <<>>, 0, 0,
                                       [id |-> edit.id, position_x |-> edit.position_x,
                                        position_y |-> edit.position_y], <<>>, <<>>))
                /\ last' = StepOn("mouseUp", edit.id, NoId, TRUE, "", edit, <<>>)
                /\ UNCHANGED <<dragging, nextUuid>>
    /\ IF dragging.type = "image"
          /\ \E i \in 1..Len(imageEdits) :
                 imageEdits[i].id = dragging.id /\ ShownImage(imageEdits[i])
       THEN Select(dragging.id)
       ELSE UNCHANGED selection
    /\ events' = events + 1
    /\ UNCHANGED <<view, textEdits, imageEdits, tool, originalMasks, rows, download>>
    /\ RenderEffect

\* onUp of an Original text entry after its insert has settled
OnUpInsertDone ==
    \E t \in BagToSet(tasks), ok \in BOOLEAN :
        /\ t.kind = "onUp.insert"
        /\ tasks' = Finish(t)
        /\ IF ok
           THEN /\ rows' = Insert(rows, t.req)
                /\ textEdits' = Renamed(textEdits, t.id, t.newId)
           ELSE UNCHANGED <<rows, textEdits>>
        /\ dragging' = NoDrag
        /\ last' = StepOn("onUp.insert", t.id, t.newId, ok, "", Find(textEdits, t.id), <<>>)
        /\ KeepFocus(textEdits')
        /\ UNCHANGED <<view, imageEdits, tool, originalMasks, requests,
                       nextUuid, events, download>>
        /\ RenderEffect

\* onUp of another text entry or of an image after its update has settled
OnUpUpdateDone ==
    \E t \in BagToSet(tasks), ok \in BOOLEAN :
        /\ t.kind = "onUp.update"
        /\ tasks' = Finish(t)
        /\ rows' = IF ok
                   THEN Update(rows, t.id, LAMBDA r :
                            [r EXCEPT !.position_x = t.req.position_x,
                                      !.position_y = t.req.position_y])
                   ELSE rows
        /\ dragging' = NoDrag
        /\ last' = Step("onUp.update", t.id, NoId, ok, "")
        /\ UNCHANGED <<view, textEdits, imageEdits, tool, selection, originalMasks,
                       requests, nextUuid, events, download>>
        /\ RenderEffect

\* ------------------------------------------------------------------- export
\* downloadEditedPDF, called through window.pdfEditorDownload with the edits
\* of the latest render.  docOk: fetching and loading the document, drawing
\* the texts and saving all succeed; failing: the images whose fetch or
\* embedding throws.
Export ==
    \E docOk \in BOOLEAN, failing \in SUBSET {g.id : g \in Range(imageEdits)} :
        /\ CanAct
        /\ IF docOk
           THEN /\ download' = [offered |-> TRUE,
                                texts |-> DrawnTexts(textEdits),
                                images |-> DrawnImages(imageEdits, failing)]
                /\ last' = Step("export", NoId, NoId, TRUE,
                                "Your edited PDF has been downloaded")
           ELSE /\ failing = {}
                /\ download' = NoDownload
                /\ last' = Step("export", NoId, NoId, FALSE,
                                "Failed to generate PDF. Please try again.")
        /\ events' = events + 1
        /\ Defocus
        /\ UNCHANGED <<view, textEdits, imageEdits, tool, dragging,
                       originalMasks, store, tasks, nextUuid>>
        /\ RenderEffect

\* ------------------------------------------------------------ specification
Next ==
    \/ LoadPdfDone \/ LoadEditsDone \/ ExtractDone
    \/ GoToPreviousPage \/ GoToNextPage \/ ZoomIn \/ ZoomOut
    \/ ToggleAddText \/ ToggleAddImage \/ SetFontSize \/ SetTextColor
    \/ CanvasClick \/ SaveEditDone
    \/ UpdateEdit \/ UpdateEditInsertDone \/ UpdateEditUpdateDone
    \/ DeleteEditButton \/ DeleteEditDone
    \/ ImageUpload \/ ChooserCancel \/ FileReadDone \/ ImageInsertDone
    \/ DeleteImageButton \/ DeleteImageDone
    \/ ClickInput \/ BlurInput \/ KeyDelete
    \/ MouseDownText \/ MouseDownImage \/ MouseMove \/ MouseUp
    \/ OnUpInsertDone \/ OnUpUpdateDone
    \/ Export

Spec == Init /\ [][Next]_vars

\* The text edits of a loaded document: extraction, create, content edit,
\* drag, remove by button and by key, page changes.
NextText ==
    \/ ExtractDone \/ GoToPreviousPage \/ GoToNextPage
    \/ ToggleAddText \/ CanvasClick \/ SaveEditDone
    \/ UpdateEdit \/ UpdateEditInsertDone \/ UpdateEditUpdateDone
    \/ DeleteEditButton \/ DeleteEditDone
    \/ ClickInput \/ BlurInput \/ KeyDelete
    \/ MouseDownText \/ MouseMove \/ MouseUp
    \/ OnUpInsertDone \/ OnUpUpdateDone

\* operations overlap
SpecText == Ready(FALSE) /\ [][NextText]_vars
\* every operation settles before the next event
SpecTextSeq == Ready(TRUE) /\ [][NextText]_vars

\* The image edits of a loaded document.
NextImage ==
    \/ ExtractDone
    \/ ToggleAddImage \/ ImageUpload \/ ChooserCancel \/ FileReadDone \/ ImageInsertDone
    \/ DeleteImageButton \/ DeleteImageDone
    \/ KeyDelete
    \/ MouseDownImage \/ MouseMove \/ MouseUp \/ OnUpUpdateDone

SpecImage == Ready(FALSE) /\ [][NextImage]_vars
SpecImageSeq == Ready(TRUE) /\ [][NextImage]_vars

\* ------------------------------------------------------------- statements
CountId(s, id) == Cardinality({i \in 1..Len(s) : s[i].id = id})

\* how many calls of the kind the table has received for the id
Issued(op, id) ==
    LET calls == {r \in BagToSet(requests) : r.op = op /\ r.id = id}
    IN  BagCardinality([r \in calls |-> CopiesIn(r, requests)])

IssuedBy(op, by) ==
    LET calls == {r \in BagToSet(requests) : r.op = op /\ r.by = by}
    IN  BagCardinality([r \in calls |-> CopiesIn(r, requests)])

StoredIds == {r.id : r \in StoredRows}

\* an id crypto.randomUUID() has handed out
Minted(id) == id[1] = "uuid" /\ id[2] \in 1..nextUuid

UserEdits(texts) == SelectSeq(texts, LAMBDA e : ~e.isOriginal)

\* C1: when updateEdit of an Original entry has succeeded, no Original entry
\* with the old id is left, exactly one entry has the fresh id, and it is the
\* found entry with the new content, marked user-authored (same page,
\* position, font size and colour); the table has received exactly one insert
\* and no update for the fresh id, and the inserted row carries these values.
C1_UpdateEditPromotes ==
    (last.op = "updateEdit.insert" /\ last.ok) =>
        /\ last.edit.isOriginal /\ last.edit.id = last.id
        /\ \A i \in 1..Len(textEdits) :
               ~(textEdits[i].id = last.id /\ textEdits[i].isOriginal)
        /\ Minted(last.newId) /\ last.newId \notin StoredIds
        /\ CountId(textEdits, last.newId) = 1
        /\ Find(textEdits, last.newId) =
               [last.edit EXCEPT !.id = last.newId, !.content = last.content,
                                 !.isOriginal = FALSE]
        /\ Issued("insert", last.newId) = 1
        /\ Issued("update", last.newId) = 0
        /\ TextRow(last.newId, last.edit, last.content) \in rows

C1_Promoted ==
    /\ last.op = "updateEdit.insert" /\ last.ok
    /\ last.edit.isOriginal
    /\ last.content = <<"9", "9">>
    /\ \E i \in 1..Len(textEdits) :
           textEdits[i].id = last.newId /\ textEdits[i].content = <<"9", "9">>

\* C2: when the mouse is released over a dragged Original entry, exactly one
\* insert is sent, under a fresh id, with the entry's page, content, font
\* size, colour and dragged position; when the insert has succeeded the entry
\* has the fresh id and is no longer Original, and nothing else of it changed.
C2_DragPromotes ==
    /\ (last.op = "mouseUp" /\ last.ok /\ last.newId # NoId) =>
           LET e == Find(textEdits, last.id)
           IN  /\ e.isOriginal /\ e = last.edit
               /\ Minted(last.newId) /\ last.newId \notin StoredIds
               /\ Issued("insert", last.newId) = 1
               /\ Issued("update", last.newId) = 0
               /\ \E t \in BagToSet(tasks) :
                      /\ t.kind = "onUp.insert" /\ t.newId = last.newId
                      /\ t.req.id = last.newId
                      /\ t.req.page_number = e.page_number
                      /\ t.req.content = e.content
                      /\ t.req.font_size = e.font_size
                      /\ t.req.color = e.color
                      /\ t.req.position_x = e.position_x
                      /\ t.req.position_y = e.position_y
    /\ (last.op = "onUp.insert" /\ last.ok /\ last.edit # NoEntry) =>
           /\ CountId(textEdits, last.id) = 0
           /\ CountId(textEdits, last.newId) = 1
           /\ Find(textEdits, last.newId) =
                  [last.edit EXCEPT !.id = last.newId, !.isOriginal = FALSE]
           /\ \E r \in rows : r.id = last.newId

C2_DraggedAndPromoted ==
    /\ last.op = "onUp.insert" /\ last.ok
    /\ last.edit # NoEntry /\ last.edit.isOriginal
    /\ <<last.edit.position_x, last.edit.position_y>> \in DragPositions
    /\ \E i \in 1..Len(textEdits) :
           /\ textEdits[i].id = last.newId
           /\ <<textEdits[i].position_x, textEdits[i].position_y>> \in DragPositions

\* where an entry or a row is: its page and its position
At(e) == <<e.page_number, e.position_x, e.position_y>>

\* C3: two content edits of the same Original fragment, each settled before
\* the next and both successful: after the second, the fragment is one
\* user-authored entry with the second content, the table holds one row for
\* it with that content, and the table has received one insert (the first
\* edit) and one update (the second) keyed by the same id; no second entry
\* and no second row stands where the fragment is.
C3_SecondEditUpdates ==
    last.chain.stage = 4 =>
        LET id == last.chain.id
        IN  /\ Minted(id)
            /\ CountId(textEdits, id) = 1
            /\ ~Find(textEdits, id).isOriginal
            /\ Find(textEdits, id).content = last.content
            /\ Cardinality({r \in rows : r.id = id}) = 1
            /\ \A r \in rows : r.id = id => r.content = last.content
            /\ Issued("insert", id) = 1
            /\ Issued("update", id) = 1
            /\ Cardinality({i \in 1..Len(textEdits) : At(textEdits[i]) = At(last.edit)}) = 1
            /\ Cardinality({r \in rows : At(r) = At(last.edit)}) = 1

C3_EditedTwice ==
    /\ last.chain.stage = 4
    /\ last.op = "updateEdit.update" /\ last.ok
    /\ last.content = <<"7">>
    /\ \E r \in rows : r.id = last.chain.id /\ r.content = <<"7">>
    /\ Issued("insert", last.chain.id) = 1 /\ Issued("update", last.chain.id) = 1

\* C4: every insert, update and delete the table has ever received is keyed
\* by a uuid (a stored row's id or one minted since), never by the
\* original-... id of an extracted entry.
C4_NoOriginalIdSent ==
    \A r \in BagToSet(requests) :
        /\ ~IsOriginalId(r.id)
        /\ r.id \in StoredIds \/ Minted(r.id)

C4_OriginalsHandled ==
    /\ last.toast = "Original text hidden"
    /\ IsOriginalId(last.id)
    /\ IssuedBy("insert", "updateEdit") + IssuedBy("insert", "onUp") >= 1

\* Extraction against the other things that change the text set: page
\* changes and zoom start extractions; drags and removals change entries
\* while extractions are in flight.
NextExtract ==
    \/ ExtractDone
    \/ GoToPreviousPage \/ GoToNextPage \/ ZoomIn \/ ZoomOut
    \/ DeleteEditButton \/ DeleteEditDone
    \/ MouseDownText \/ MouseMove \/ MouseUp
    \/ OnUpInsertDone \/ OnUpUpdateDone

SpecExtract == Ready(FALSE) /\ [][NextExtract]_vars

\* C5: a run of extractTextFromPage, whether it succeeds or throws, leaves
\* every user-authored text entry, the image entries and the table as they
\* were, and sends nothing to the table.
C5_ExtractKeepsUserEdits ==
    [][ExtractDone =>
          /\ UserEdits(textEdits') = UserEdits(textEdits)
          /\ imageEdits' = imageEdits
          /\ rows' = rows
          /\ requests' = requests]_vars

C5_ExtractedBesideUserEdits ==
    /\ last.op = "extract" /\ last.ok
    /\ \E i \in 1..Len(textEdits) : textEdits[i].isOriginal /\ textEdits[i].page_number = 2
    /\ \E i \in 1..Len(textEdits) : ~textEdits[i].isOriginal /\ textEdits[i].page_number = 1
    /\ \E i \in 1..Len(textEdits) : Minted(textEdits[i].id)
    /\ imageEdits # <<>>

\* C6: when extraction of a page at a scale completes directly after an
\* extraction of the same page at the same scale (nothing else in between),
\* the text set is left exactly as the first run left it.
C6_ReextractionKeepsTexts ==
    [][last'.chain.stage = 5 => textEdits' = textEdits]_vars

C6_ExtractedTwice ==
    /\ last.chain.stage = 5
    /\ \E i \in 1..Len(textEdits) :
           textEdits[i].isOriginal /\ textEdits[i].page_number = last.id[2]

Ids(s) == [i \in 1..Len(s) |-> s[i].id]

\* C7: deleteEdit of an Original entry removes it from the text set, sends
\* nothing to the table and shows "Original text hidden"; deleteEdit of a
\* user-authored entry sends exactly one delete keyed by its id and, once
\* the delete has succeeded, removes the entry from the text set; every
\* other text entry is left as it was.
C7_DeleteEditRemoves ==
    [][/\ ((DeleteEditButton \/ KeyDelete) /\ last'.edit # NoEntry) =>
              IF last'.edit.isOriginal
              THEN /\ textEdits' = Without(textEdits, last'.id)
                   /\ requests' = requests
                   /\ last'.toast = "Original text hidden"
              ELSE /\ textEdits' = textEdits
                   /\ requests' = requests (+) Request("delete", last'.id, "deleteEdit")
       /\ (DeleteEditDone /\ last'.ok) =>
              /\ textEdits' = Without(textEdits, last'.id)
              /\ requests' = requests]_vars

\* C8: deleteImage never takes an image record out of the image set or out
\* of the table: the ids and their order stay, only is_deleted of the
\* target becomes true, also when the target is deleted already.
C8_DeleteImageKeepsRecords ==
    [][/\ (DeleteImageButton \/ KeyDelete) =>
              /\ imageEdits' = imageEdits
              /\ rows' = rows
       /\ DeleteImageDone =>
              /\ Ids(imageEdits') = Ids(imageEdits)
              /\ {r.id : r \in rows'} = {r.id : r \in rows}
              /\ \A i \in 1..Len(imageEdits) :
                     imageEdits'[i].is_deleted =
                         (imageEdits[i].is_deleted \/ (last'.ok /\ imageEdits[i].id = last'.id))]_vars

\* ------------------------------------------------------------------ export
\* Export against the operations that decide what it draws.
NextExport ==
    \/ ExtractDone \/ Export
    \/ GoToPreviousPage \/ GoToNextPage
    \/ ClickInput \/ UpdateEdit \/ UpdateEditInsertDone \/ UpdateEditUpdateDone
    \/ DeleteEditButton \/ DeleteEditDone
    \/ DeleteImageButton \/ DeleteImageDone

SpecExport == Ready(TRUE) /\ [][NextExport]_vars

\* C9: an export that offers a PDF has drawn exactly the text entries that
\* are not Original and the image entries that are not deleted, of the pages
\* the document has; and an export changes neither the text set, the image
\* set nor the table.
C9_ExportDrawsUserEdits ==
    [][Export =>
          /\ last'.ok =>
                 /\ Ids(download'.texts) =
                        Ids(SelectSeq(textEdits, LAMBDA e :
                                ~e.isOriginal /\ HasPage(e.page_number)))
                 /\ Ids(download'.images) =
                        Ids(SelectSeq(imageEdits, LAMBDA g :
                                ~g.is_deleted /\ HasPage(g.page_number)))
          /\ textEdits' = textEdits
          /\ imageEdits' = imageEdits
          /\ rows' = rows
          /\ requests' = requests]_vars

\* --------------------------------------------------------------- transform
\* A position of the PDF taken to the canvas as extraction takes it and back
\* as export takes it.
ProbeX == {0, 50}
ProbeY == {0, 700}
ProbeSizes == {10, 12}

Probes ==
    {[stage |-> "pdf", x |-> x, y |-> y, pageHeight |-> Doc[p].height,
      scale |-> sc, size |-> size, at |-> <<x, y>>] :
        x \in ProbeX, y \in ProbeY, p \in PageNumbers,
        sc \in MinScale..MaxScale, size \in ProbeSizes}

others ==
    <<pdf, currentPage, totalPages, scale, textEdits, imageEdits, isAddingText,
      isAddingImage, selectedEditId, selectedImageId, fontSize, textColor,
      dragging, originalMasks, keyHandler, focus, chooser, rows, requests, tasks,
      nextUuid, events, download, sequential, bitmap, last>>

\* extractTextFromPage: x = transform[4], y = viewport.height - transform[5]
ProbeToCanvas ==
    /\ probe.stage = "pdf"
    /\ probe' = [probe EXCEPT !.stage = "canvas",
                              !.at = ToCanvas(probe.x, probe.y, probe.pageHeight, probe.scale)]
    /\ UNCHANGED others

\* downloadEditedPDF: x = position_x, y = height - position_y - font_size
ProbeToPdf ==
    /\ probe.stage = "canvas"
    /\ probe' = [probe EXCEPT !.stage = "back",
                              !.at = ToPdf(probe.at[1], probe.at[2], probe.pageHeight, probe.size)]
    /\ UNCHANGED others

NextTransform == ProbeToCanvas \/ ProbeToPdf

SpecTransform ==
    /\ \E p \in Probes : Loaded(TRUE, EmptyBag, p)
    /\ [][NextTransform]_vars

\* C10: a PDF position taken to canvas space as extraction does it, at any
\* scale from 0.5 to 3.0 in steps of 0.25, and back to PDF space as export
\* does it, is the position it was.
C10_RoundTrip ==
    probe.stage = "back" => probe.at = <<probe.x, probe.y>>

\* C11: an export that offers a PDF has drawn every non-Original text entry
\* of canvas position (x, y) and font size f, on a page of height H, once,
\* at PDF x = x and y = H - y - f with size f; and every image it has drawn,
\* of canvas position (x, y) and height h, at PDF x = x and y = H - y - h
\* with the stored width and height.
C11_ExportPlacement ==
    (last.op = "export" /\ last.ok) =>
        /\ \A i \in 1..Len(textEdits) :
               LET e == textEdits[i]
               IN  (~e.isOriginal /\ HasPage(e.page_number)) =>
                       /\ Cardinality({j \in 1..Len(download.texts) :
                                          download.texts[j].id = e.id}) = 1
                       /\ \E j \in 1..Len(download.texts) :
                              LET d == download.texts[j]
                              IN  /\ d.id = e.id
                                  /\ d.page = e.page_number
                                  /\ d.text = e.content
                                  /\ d.x = e.position_x
                                  /\ d.y = Doc[e.page_number].height - e.position_y - e.font_size
                                  /\ d.size = e.font_size
        /\ \A j \in 1..Len(download.images) :
               LET d == download.images[j]
                   g == Find(imageEdits, d.id)
               IN  /\ g # NoEntry
                   /\ d.page = g.page_number
                   /\ d.x = g.position_x
                   /\ d.y = Doc[g.page_number].height - g.position_y - g.height
                   /\ d.width = g.width
                   /\ d.height = g.height

C11_PlacedAt688 ==
    /\ last.op = "export" /\ last.ok
    /\ \E j \in 1..Len(download.texts) :
           /\ download.texts[j].x = 50 /\ download.texts[j].y = 688
           /\ download.texts[j].size = 12
    /\ \E j \in 1..Len(download.images) :
           /\ download.images[j].x = 20 /\ download.images[j].y = 690
           /\ download.images[j].height = 80

\* C12: an extraction that adds the fragments of a page adds, in item order,
\* one Original entry per text item whose trimmed string is not empty and
\* none for the others; each has the trimmed string as content, font size
\* |transform[0]| or, when that is 0, max(item height, 10), and canvas
\* y = pageHeight * scale - pdfY * scale (scale is in quarters here).
C12_ExtractedFragments ==
    [][(ExtractDone /\ last'.ok /\ textEdits' # textEdits) =>
          LET pageNum == last'.id[2]
              sc == last'.id[3]
              items == SelectSeq(Doc[pageNum].items, LAMBDA item : Trim(item.str) # <<>>)
              added == SelectSeq(textEdits', LAMBDA e :
                           e.isOriginal /\ e.page_number = pageNum)
          IN  /\ Len(added) = Len(items)
              /\ \A k \in 1..Len(added) :
                     /\ added[k].content = Trim(items[k].str)
                     /\ added[k].font_size =
                            IF items[k].transform[1] # 0
                            THEN Abs(items[k].transform[1])
                            ELSE Max(items[k].height, 10)
                     /\ 4 * added[k].position_y =
                            Doc[pageNum].height * sc - items[k].transform[6] * sc]_vars

\* the scales 0.5, 1.0, 1.5, 2.0 and 3.0, in quarters
TestedScales == {2, 4, 6, 8, 12}

\* C13: after an extraction of a page at a scale s of 0.5, 1.0, 1.5, 2.0 or
\* 3.0, the mask kept for each text item of the page contains the box of the
\* item's glyphs on the bitmap rendered at s: left edge x * s, baseline
\* (pageHeight - pdfY) * s, width w * s, height f * s.  (Masks are in fifths
\* of a pixel and s in quarters: both sides are taken times 20.)
C13_MaskCoversGlyphs ==
    (last.op = "extract" /\ last.ok /\ last.id[3] \in TestedScales) =>
        LET pageNum == last.id[2]
            sc == last.id[3]
            items == SelectSeq(Doc[pageNum].items, LAMBDA item : Trim(item.str) # <<>>)
            masks == originalMasks[pageNum]
        IN  /\ Len(masks) = Len(items)
            /\ \A k \in 1..Len(items) :
                   LET x == items[k].transform[5]
                       pdfY == items[k].transform[6]
                       f == IF items[k].transform[1] # 0
                            THEN Abs(items[k].transform[1])
                            ELSE Max(items[k].height, 10)
                       w == items[k].width
                       baseline == (Doc[pageNum].height - pdfY) * sc
                   IN  /\ 4 * masks[k].x <= 5 * x * sc
                       /\ 4 * (masks[k].x + masks[k].w) >= 5 * (x + w) * sc
                       /\ 4 * masks[k].y <= 5 * (baseline - f * sc)
                       /\ 4 * (masks[k].y + masks[k].h) >= 5 * baseline

\* ------------------------------------------------------------------- create
\* Creating text entries: the toolbar, the canvas click, saveEdit, and the
\* page changes and removals around them.
NextCreate ==
    \/ ExtractDone
    \/ GoToPreviousPage \/ GoToNextPage
    \/ ToggleAddText \/ SetFontSize \/ SetTextColor
    \/ CanvasClick \/ SaveEditDone
    \/ DeleteEditButton \/ DeleteEditDone

SpecCreate == Ready(FALSE) /\ [][NextCreate]_vars

\* C14: a canvas click in add-text mode appends one text entry: not
\* Original, on the current page, at the click position, with the toolbar's
\* font size and colour, under an id no entry or row has; every other entry
\* stays as it was; exactly one insert, keyed by that id, is sent; and
\* add-text mode is left.
C14_CreateAddsOne ==
    [][(CanvasClick /\ isAddingText) =>
          /\ Len(textEdits') = Len(textEdits) + 1
          /\ SubSeq(textEdits', 1, Len(textEdits)) = textEdits
          /\ LET new == textEdits'[Len(textEdits')]
             IN  /\ ~new.isOriginal
                 /\ new.page_number = currentPage
                 /\ <<new.position_x, new.position_y>> \in ClickPositions
                 /\ new.font_size = fontSize
                 /\ new.color = textColor
                 /\ \A i \in 1..Len(textEdits) : textEdits[i].id # new.id
                 /\ \A i \in 1..Len(imageEdits) : imageEdits[i].id # new.id
                 /\ \A r \in rows : r.id # new.id
                 /\ Issued("insert", new.id) = 0
                 /\ requests' = requests (+) Request("insert", new.id, "saveEdit")
          /\ imageEdits' = imageEdits
          /\ ~isAddingText']_vars

C14_CreatedStyled ==
    /\ last.op = "create"
    /\ fontSize = 24 /\ textColor = "#ff0000"
    /\ ~isAddingText
    /\ \E i \in 1..Len(textEdits) :
           /\ textEdits[i].id = last.newId
           /\ textEdits[i].font_size = 24 /\ textEdits[i].color = "#ff0000"
           /\ textEdits[i].position_x = 120

\* --------------------------------------------------------------------- drag
\* the release of the current drag has been handled and its write is in flight
Released ==
    /\ dragging # NoDrag
    /\ \E t \in BagToSet(tasks) :
           t.kind \in {"onUp.insert", "onUp.update"} /\ t.id = dragging.id

\* C15: during a drag the mouse moves change the in-memory position only and
\* send nothing; the release sends exactly one write (an insert for an
\* Original entry, a position update for any other text entry or an image);
\* and once the release has been handled, that drag neither moves the entry
\* again nor sends another write.
C15_DragCoalesced ==
    [][/\ MouseMove => (requests' = requests /\ rows' = rows)
       /\ (MouseUp /\ last'.ok) =>
              \E r \in BagToSet(requests') :
                  /\ requests' = requests (+) SetToBag({r})
                  /\ r.by = "onUp"
                  /\ r.op = IF dragging.type = "text" /\ last'.edit.isOriginal
                            THEN "insert" ELSE "update"
       /\ Released => (~MouseMove /\ ~MouseUp)]_vars

\* --------------------------------------------------------- optimistic state
\* C16: while the durable write of a create, a content edit, a drag release
\* or a remove is still in flight the in-memory texts already show the
\* change, and after the write has failed they still show it.
C16_OptimisticState ==
    /\ \A t \in BagToSet(tasks) :
           /\ t.kind = "saveEdit" => Find(textEdits, t.id).id = t.id
           /\ t.kind \in {"updateEdit.insert", "updateEdit.update"} =>
                  /\ Find(textEdits, t.id).id = t.id
                  /\ Find(textEdits, t.id).content = t.content
           /\ t.kind \in {"onUp.insert", "onUp.update"} /\ dragging.type = "text" =>
                  /\ Find(textEdits, t.id).id = t.id
                  /\ Find(textEdits, t.id).position_x = t.req.position_x
                  /\ Find(textEdits, t.id).position_y = t.req.position_y
           /\ t.kind = "deleteEdit" => Find(textEdits, t.id) = NoEntry
    /\ (last.op = "saveEdit" /\ ~last.ok) => Find(textEdits, last.id).id = last.id
    /\ (last.op \in {"updateEdit.insert", "updateEdit.update"} /\ ~last.ok) =>
           Find(textEdits, last.id).content = last.content
    /\ (last.op = "deleteEdit.done" /\ ~last.ok) => Find(textEdits, last.id) = NoEntry

\* ---------------------------------------------------------- failed writes
\* the steps on which a durable write settles
WriteSteps ==
    {"saveEdit", "updateEdit.insert", "updateEdit.update", "deleteEdit.done",
     "imageInsert", "deleteImage.done", "onUp.insert", "onUp.update"}

\* the messages with which the editor reports a failure
FailureToasts ==
    {"Failed to load PDF", "Failed to save edit", "Failed to add image",
     "Failed to generate PDF. Please try again."}

\* C17: the step on which a durable write fails shows the user a failure
\* message and sends no request again.
C17_FailedWriteReported ==
    [][(last'.op \in WriteSteps /\ ~last'.ok) =>
           (last'.toast \in FailureToasts /\ requests' = requests)]_vars

\* ----------------------------------------------------------- export failure
\* C18: an export whose image cannot be fetched or embedded, or whose
\* assembly fails, offers no PDF and shows an error: a PDF that is offered
\* holds every image that was to be drawn.
C18_ExportAllOrNothing ==
    last.op = "export" =>
        /\ last.ok =>
               /\ download.offered
               /\ \A i \in 1..Len(imageEdits) :
                      (~imageEdits[i].is_deleted /\ HasPage(imageEdits[i].page_number)) =>
                          \E k \in 1..Len(download.images) :
                              download.images[k].id = imageEdits[i].id
        /\ ~last.ok =>
               /\ ~download.offered
               /\ last.toast \in FailureToasts

\* ------------------------------------------------------------ missing pages
\* C19: an export leaves out, without failing, the text and image entries
\* whose page the document does not have, and draws the text entries of the
\* pages it has.
C19_ExportSkipsMissingPages ==
    (last.op = "export" /\ last.ok) =>
        /\ download.offered
        /\ \A k \in 1..Len(download.texts) : HasPage(download.texts[k].page)
        /\ \A k \in 1..Len(download.images) : HasPage(download.images[k].page)
        /\ \A i \in 1..Len(textEdits) :
               (~textEdits[i].isOriginal /\ textEdits[i].page_number \in PageNumbers) =>
                   \E k \in 1..Len(download.texts) :
                       download.texts[k].id = textEdits[i].id

C19_SkippedOne ==
    /\ last.op = "export" /\ last.ok /\ download.offered
    /\ \E i \in 1..Len(textEdits) :
           /\ ~textEdits[i].isOriginal
           /\ textEdits[i].page_number \notin PageNumbers
           /\ \A k \in 1..Len(download.texts) : download.texts[k].id # textEdits[i].id
    /\ \E i \in 1..Len(imageEdits) :
           /\ ~imageEdits[i].is_deleted
           /\ imageEdits[i].page_number \notin PageNumbers
           /\ \A k \in 1..Len(download.images) : download.images[k].id # imageEdits[i].id
    /\ \E k \in 1..Len(download.texts) : download.texts[k].page = NumPages

\* --------------------------------------------------------------------- load
\* Opening the editor: the two loads of the mount effect, the extraction
\* that follows a loaded document, and paging and zooming.
NextLoad ==
    \/ LoadPdfDone \/ LoadEditsDone \/ ExtractDone
    \/ GoToPreviousPage \/ GoToNextPage
    \/ ZoomIn \/ ZoomOut

SpecLoad == Init /\ [][NextLoad]_vars

\* loadPdf has failed and loadEdits has settled
LoadFailed ==
    /\ ~pdf
    /\ \A t \in BagToSet(tasks) : t.kind \notin {"loadPdf", "loadEdits"}

\* C20: a failed loadPdf shows "Failed to load PDF"; once both loads have
\* settled after it the text and image sets are empty, and nothing has been
\* extracted or is being extracted.
C20_FailedLoadLeavesEmpty ==
    /\ (last.op = "loadPdf" /\ ~last.ok) => last.toast = "Failed to load PDF"
    /\ LoadFailed =>
           /\ textEdits = <<>>
           /\ imageEdits = <<>>
           /\ originalMasks = [p \in {} |-> <<>>]
           /\ \A t \in BagToSet(tasks) : t.kind # "extract"

\* -------------------------------------------------------------- missing ids
\* C21: a call of updateEdit or deleteEdit (by button or by key) for an id
\* that no entry of the text set has sends nothing, starts nothing, leaves
\* the text and image sets as they are and reports no failure.
C21_MissingIdIsNoOp ==
    [][(/\ last'.op \in {"updateEdit", "deleteEdit", "keyDeleteEdit"}
        /\ Find(textEdits, last'.id) = NoEntry) =>
           /\ requests' = requests
           /\ tasks' = tasks
           /\ textEdits' = textEdits
           /\ imageEdits' = imageEdits
           /\ last'.toast \notin FailureToasts]_vars

\* ------------------------------------------------------------ re-extraction
\* the Original entries of a page in the text set
OriginalsOf(texts, pageNum) ==
    SelectSeq(texts, LAMBDA e : e.isOriginal /\ e.page_number = pageNum)

\* C22: when an extraction of a page started at the current scale has
\* completed, the Original entries of that page in the text set are the
\* fragments derived by that extraction, not those of an earlier one.
C22_ExtractReplacesOriginals ==
    (last.op = "extract" /\ last.ok /\ last.id[3] = scale) =>
        OriginalsOf(textEdits, last.id[2]) = OriginalTexts(last.id[2], last.id[3])

\* -------------------------------------------------------------- painted masks
\* C23: once the extraction of the current page at the current scale has
\* completed and no other extraction is in flight, the bitmap shows the
\* current page at the current scale and the masks painted on it are the
\* ones that extraction computed.
C23_PaintedMasksCurrent ==
    (/\ last.op = "extract" /\ last.ok
     /\ last.id = <<"page", currentPage, scale, 0>>
     /\ \A t \in BagToSet(tasks) : t.kind # "extract") =>
        /\ bitmap.page = currentPage
        /\ bitmap.scale = scale
        /\ bitmap.masks = Masks(currentPage, scale)

\* ---------------------------------------------------------------- fragments
\* Extraction, page change, zoom, content edit and drag on a loaded document,
\* every operation settling before the next event. No entry is created, so
\* a non-Original entry under a minted id is a promoted Original.
NextFragments ==
    \/ ExtractDone
    \/ GoToPreviousPage \/ GoToNextPage \/ ZoomIn \/ ZoomOut
    \/ ClickInput \/ UpdateEdit \/ UpdateEditInsertDone \/ UpdateEditUpdateDone
    \/ MouseDownText \/ MouseMove \/ MouseUp
    \/ OnUpInsertDone \/ OnUpUpdateDone

SpecFragments == Ready(TRUE) /\ [][NextFragments]_vars

\* the entries of a page that stand for a fragment of it: the Original
\* entries and the entries they were promoted to
FragmentEntries(pageNum) ==
    SelectSeq(textEdits, LAMBDA e :
        e.page_number = pageNum /\ (e.isOriginal \/ Minted(e.id)))

\* C24: for every page the text set holds no more entries that stand for a
\* fragment of the page than the page has fragments (each page of Doc has
\* one): no fragment has both its Original and its promoted entry, or two of
\* either.
C24_OneEntryPerFragment ==
    \A pageNum \in PageNumbers :
        Len(FragmentEntries(pageNum)) <= Len(NonEmptyItems(pageNum))

\* ------------------------------------------------------- overlapping edits
\* C25: when the insert of a content edit of an Original entry has
\* succeeded and no other content edit of that entry is still in flight
\* (a second one may have been issued while the first was pending), the
\* table holds exactly one row where the fragment is and the text entry
\* there bears that row's id.
C25_OneRowPerPromotion ==
    (/\ last.op = "updateEdit.insert" /\ last.ok
     /\ \A t \in BagToSet(tasks) : ~(t.kind = "updateEdit.insert" /\ t.id = last.id)) =>
        LET here == {r \in rows : r.edit_type = "text" /\ At(r) = At(last.edit)}
        IN  /\ Cardinality(here) = 1
            /\ \E i \in 1..Len(textEdits) :
                   /\ At(textEdits[i]) = At(last.edit)
                   /\ textEdits[i].id \in {r.id : r \in here}

\* ------------------------------------------------------------- load order
\* the stored text edits, as loadEdits puts them into the text set
PersistedTexts ==
    SeqMap(SelectSeq(RowsInOrder(StoredRows), LAMBDA r : r.edit_type = "text"), TextOfRow)

\* C26: once loadEdits has succeeded and the extraction of the current page
\* has completed, in whichever order, the text set holds every stored text
\* edit as a non-Original entry and the Original entries of the current page.
C26_LoadAndExtractMerge ==
    (/\ \A t \in BagToSet(tasks) : t.kind \notin {"loadEdits", "extract"}
     /\ currentPage \in DOMAIN originalMasks
     /\ \/ last.op = "loadEdits" /\ last.ok
        \/ /\ last.op = "extract" /\ last.ok
           /\ \A k \in 1..Len(PersistedTexts) : Find(textEdits, PersistedTexts[k].id) # NoEntry) =>
        /\ \A k \in 1..Len(PersistedTexts) :
               /\ Find(textEdits, PersistedTexts[k].id) # NoEntry
               /\ ~Find(textEdits, PersistedTexts[k].id).isOriginal
        /\ Len(OriginalsOf(textEdits, currentPage)) = Len(NonEmptyItems(currentPage))

\* ------------------------------------------------------------ late results
\* C27: the step on which an updateEdit resolves does not undo what has
\* completed since it was issued: a non-Original entry other than its target
\* that is in the text set stays in it (an entry created meanwhile), and an id
\* that is not in the text set stays out of it (an entry removed
\* meanwhile), the promoted entry's new id apart.
C27_LateResultKeepsOthers ==
    [][(last'.op \in {"updateEdit.insert", "updateEdit.update"} /\ last'.ok) =>
          /\ \A i \in 1..Len(textEdits) :
                 (textEdits[i].id # last'.id /\ ~textEdits[i].isOriginal) =>
                     Find(textEdits', textEdits[i].id) # NoEntry
          /\ \A i \in 1..Len(textEdits') :
                 textEdits'[i].id \notin {last'.id, last'.newId} =>
                     Find(textEdits, textEdits'[i].id) # NoEntry]_vars

\* ------------------------------------------------------ memory and the table
\* a step on which no durable write fails
Succeeds == ~(last'.op \in WriteSteps /\ ~last'.ok)

\* The text operations with every operation settled before the next event
\* and no failing write.
NextTextSettled ==
    \/ ExtractDone /\ Succeeds
    \/ GoToPreviousPage /\ Succeeds
    \/ GoToNextPage /\ Succeeds
    \/ ToggleAddText /\ Succeeds
    \/ CanvasClick /\ Succeeds
    \/ SaveEditDone /\ Succeeds
    \/ UpdateEdit /\ Succeeds
    \/ UpdateEditInsertDone /\ Succeeds
    \/ UpdateEditUpdateDone /\ Succeeds
    \/ DeleteEditButton /\ Succeeds
    \/ DeleteEditDone /\ Succeeds
    \/ ClickInput /\ Succeeds
    \/ BlurInput /\ Succeeds
    \/ KeyDelete /\ Succeeds
    \/ MouseDownText /\ Succeeds
    \/ MouseMove /\ Succeeds
    \/ MouseUp /\ Succeeds
    \/ OnUpInsertDone /\ Succeeds
    \/ OnUpUpdateDone /\ Succeeds

SpecTextSettled == Ready(TRUE) /\ [][NextTextSettled]_vars

\* what the table and the text set are compared by
Kept(e) ==
    [id |-> e.id, content |-> e.content,
     position_x |-> e.position_x, position_y |-> e.position_y]

\* C28: with no write in flight, the text rows of the table are the
\* non-Original entries of the text set: the same ids with the same content
\* and position.
C28_TableIsMemory ==
    (tasks = EmptyBag /\ dragging = NoDrag) =>
        {Kept(r) : r \in {q \in rows : q.edit_type = "text"}} =
            {Kept(textEdits[i]) : i \in {k \in 1..Len(textEdits) : ~textEdits[k].isOriginal}}

\* -------------------------------------------------------------------- pages
\* Opening the editor, paging, zooming, and the parent showing another
\* document in the editor. The other specifications keep the document.
NextPages ==
    \/ LoadPdfDone \/ LoadEditsDone \/ ExtractDone
    \/ GoToPreviousPage \/ GoToNextPage
    \/ ZoomIn \/ ZoomOut
    \/ ChangePdfUrl

SpecPages == Init /\ [][NextPages]_vars

\* C29: once a document is loaded the current page is one of its pages and
\* the scale lies between 0.5 and 3.0, whatever paging, zooming and changes
\* of the document came before.
C29_PageAndScaleInRange ==
    pdf => /\ 1 <= currentPage /\ currentPage <= totalPages
           /\ MinScale <= scale /\ scale <= MaxScale

====
